---- MODULE Spec2Model ----
(***************************************************************************)
(* A model of expense_tracker.py: a single-user command-line expense       *)
(* tracker that keeps its records in the CSV file expenses.csv.            *)
(*                                                                         *)
(* Text is modelled as a sequence of one-character strings, so that the    *)
(* parsers, the prefix test and the string ordering work on the characters *)
(* as the Python code does.                                                *)
(***************************************************************************)
EXTENDS Integers, Sequences, FiniteSets, TLC

VARIABLES csv, pc, last, issued

vars == <<csv, pc, last, issued>>

(***************************************************************************)
(* Characters and strings                                                  *)
(***************************************************************************)

Digits == {"0", "1", "2", "3", "4", "5", "6", "7", "8", "9"}

\* int() of one decimal digit.
DigitVal(c) ==
    CASE c = "0" -> 0 [] c = "1" -> 1 [] c = "2" -> 2 [] c = "3" -> 3
      [] c = "4" -> 4 [] c = "5" -> 5 [] c = "6" -> 6 [] c = "7" -> 7
      [] c = "8" -> 8 [] c = "9" -> 9

\* The digit character of a number 0..9.
DigitChar(n) ==
    CASE n = 0 -> "0" [] n = 1 -> "1" [] n = 2 -> "2" [] n = 3 -> "3"
      [] n = 4 -> "4" [] n = 5 -> "5" [] n = 6 -> "6" [] n = 7 -> "7"
      [] n = 8 -> "8" [] n = 9 -> "9"

\* The code point of a character, for the characters a stored date can hold
\* (Python orders strings by code point).
Ord(c) ==
    CASE c = " " -> 32 [] c = "-" -> 45 [] c \in Digits -> 48 + DigitVal(c)

\* The character at position i (1-based), or "" past the end of the string.
At(s, i) == IF i >= 1 /\ i <= Len(s) THEN s[i] ELSE ""

\* str.startswith
StartsWith(s, p) == Len(p) <= Len(s) /\ SubSeq(s, 1, Len(p)) = p

\* str.lower for the letters of the model's alphabet.
LowerChar(c) ==
    CASE c = "A" -> "a" [] c = "D" -> "d" [] c = "F" -> "f" [] c = "I" -> "i"
      [] c = "N" -> "n" [] c = "O" -> "o" [] c = "S" -> "s" [] c = "T" -> "t"
      [] c = "Y" -> "y" [] OTHER -> c

Lower(s) == [i \in 1..Len(s) |-> LowerChar(s[i])]

\* Python's < on two strings: lexicographic by code point, a proper prefix first.
RECURSIVE StrLess(_, _)
StrLess(a, b) ==
    IF b = <<>> THEN FALSE
    ELSE IF a = <<>> THEN TRUE
    ELSE IF Ord(Head(a)) # Ord(Head(b)) THEN Ord(Head(a)) < Ord(Head(b))
    ELSE StrLess(Tail(a), Tail(b))

\* int() of a string of decimal digits.
RECURSIVE IntOf(_)
IntOf(s) == IF s = <<>> THEN 0 ELSE 10 * IntOf(SubSeq(s, 1, Len(s) - 1)) + DigitVal(s[Len(s)])

AllDigits(s) == \A i \in 1..Len(s) : s[i] \in Digits

(***************************************************************************)
(* parse_date: datetime.strptime(s, "%Y-%m-%d").date(), None on any error  *)
(***************************************************************************)

NoDate == [ok |-> FALSE, y |-> 0, m |-> 0, d |-> 0]

\* Length of the text the directive %m matches at position i, 0 for no match:
\* the regular expression 1[0-2]|0[1-9]|[1-9], alternatives tried in order.
MonthLen(s, i) ==
    IF At(s, i) = "1" /\ At(s, i + 1) \in {"0", "1", "2"} THEN 2
    ELSE IF At(s, i) = "0" /\ At(s, i + 1) \in Digits \ {"0"} THEN 2
    ELSE IF At(s, i) \in Digits \ {"0"} THEN 1
    ELSE 0

\* Length of the text the directive %d matches at position i, 0 for no match:
\* the regular expression 3[0-1]|[1-2]\d|0[1-9]|[1-9]| [1-9].
DayLen(s, i) ==
    IF At(s, i) = "3" /\ At(s, i + 1) \in {"0", "1"} THEN 2
    ELSE IF At(s, i) \in {"1", "2"} /\ At(s, i + 1) \in Digits THEN 2
    ELSE IF At(s, i) = "0" /\ At(s, i + 1) \in Digits \ {"0"} THEN 2
    ELSE IF At(s, i) \in Digits \ {"0"} THEN 1
    ELSE IF At(s, i) = " " /\ At(s, i + 1) \in Digits \ {"0"} THEN 2
    ELSE 0

IsLeap(y) == (y % 4 = 0 /\ y % 100 # 0) \/ y % 400 = 0

DaysInMonth(y, m) ==
    IF m = 2 THEN (IF IsLeap(y) THEN 29 ELSE 28)
    ELSE IF m \in {4, 6, 9, 11} THEN 30 ELSE 31

\* The four digits of %Y, "-", %m, "-", %d, nothing left over ("unconverted data
\* remains"), and then a date the calendar has (datetime.date raises ValueError).
parse_date(s) ==
    IF ~(Len(s) >= 5 /\ AllDigits(SubSeq(s, 1, 4)) /\ s[5] = "-") THEN NoDate
    ELSE LET ml == MonthLen(s, 6) IN
      IF ml = 0 \/ At(s, 6 + ml) # "-" THEN NoDate
      ELSE LET dstart == 6 + ml + 1
               dl == DayLen(s, dstart) IN
        IF dl = 0 \/ dstart + dl - 1 # Len(s) THEN NoDate
        ELSE LET y == IntOf(SubSeq(s, 1, 4))
                 m == IntOf(SubSeq(s, 6, 5 + ml))
                 dtxt == SubSeq(s, dstart, Len(s))
                 d == IntOf(IF Head(dtxt) = " " THEN Tail(dtxt) ELSE dtxt) IN
          IF y < 1 \/ d > DaysInMonth(y, m) THEN NoDate
          ELSE [ok |-> TRUE, y |-> y, m |-> m, d |-> d]

\* datetime.date comparison a <= b.
DateLeq(a, b) ==
    \/ a.y < b.y
    \/ a.y = b.y /\ a.m < b.m
    \/ a.y = b.y /\ a.m = b.m /\ a.d <= b.d

(***************************************************************************)
(* parse_amount: Decimal(s).quantize(Decimal("0.01")), None on             *)
(* InvalidOperation.  A Decimal is a sign, a coefficient and an exponent,  *)
(* or a NaN or an infinity.                                                *)
(***************************************************************************)

Dec(kind, sign, coeff, exp) == [kind |-> kind, sign |-> sign, coeff |-> coeff, exp |-> exp]

\* What parse_amount returns for a string Decimal() or quantize() rejects.
None == Dec("none", 0, 0, 0)

RECURSIVE Pow10(_)
Pow10(n) == IF n = 0 THEN 1 ELSE 10 * Pow10(n - 1)

\* The position of the first "." of s, or 0.
RECURSIVE PointAt(_, _)
PointAt(s, i) == IF i > Len(s) THEN 0 ELSE IF s[i] = "." THEN i ELSE PointAt(s, i + 1)

\* Decimal(s) for an unsigned numeric string: digits, optionally a "." and more
\* digits, at least one digit in all (the lookahead \d|\.\d of the constructor's
\* grammar).  The alphabet of the model has no exponent marker.
Numeral(s, sign) ==
    LET p == PointAt(s, 1)
        ip == IF p = 0 THEN s ELSE SubSeq(s, 1, p - 1)
        fp == IF p = 0 THEN <<>> ELSE SubSeq(s, p + 1, Len(s)) IN
    IF AllDigits(ip) /\ AllDigits(fp) /\ Len(ip) + Len(fp) > 0
    THEN Dec("num", sign, IntOf(ip \o fp), -Len(fp))
    ELSE None

\* Decimal(s): an optional sign, then a numeral, Inf, Infinity, NaN or sNaN (letters
\* in either case).  The result "none" stands for InvalidOperation.
DecimalOf(s) ==
    LET signed == At(s, 1) \in {"+", "-"}
        sign == IF At(s, 1) = "-" THEN 1 ELSE 0
        body == IF signed THEN Tail(s) ELSE s
        low == Lower(body) IN
    IF low = <<"n", "a", "n">> THEN Dec("nan", sign, 0, 0)
    ELSE IF low = <<"s", "n", "a", "n">> THEN Dec("snan", sign, 0, 0)
    ELSE IF low \in {<<"i", "n", "f">>, <<"i", "n", "f", "i", "n", "i", "t", "y">>}
         THEN Dec("inf", sign, 0, 0)
    ELSE Numeral(body, sign)

\* The coefficient of c / 10^k rounded half to even (the default context's
\* ROUND_HALF_EVEN).
RoundHalfEven(c, k) ==
    LET q == c \div Pow10(k)
        r == c % Pow10(k)
        half == 5 * Pow10(k - 1) IN
    IF r > half \/ (r = half /\ q % 2 = 1) THEN q + 1 ELSE q

\* a.quantize(Decimal("0.01")): a quiet NaN stays a NaN; a signalling NaN and an
\* infinity raise InvalidOperation; a number is rescaled to the exponent -2.
quantize(a) ==
    IF a.kind = "nan" THEN a
    ELSE IF a.kind # "num" THEN None
    ELSE IF a.exp >= -2 THEN Dec("num", a.sign, a.coeff * Pow10(a.exp + 2), -2)
    ELSE Dec("num", a.sign, RoundHalfEven(a.coeff, -2 - a.exp), -2)

parse_amount(s) == quantize(DecimalOf(s))

\* The decimal digits of a natural number.
RECURSIVE DigitsOf(_)
DigitsOf(n) == IF n < 10 THEN <<DigitChar(n)>> ELSE Append(DigitsOf(n \div 10), DigitChar(n % 10))

Zeros(n) == [i \in 1..n |-> "0"]

\* str(a) of a Decimal with an exponent <= 0 (no scientific notation arises), or of
\* a NaN.
str(a) ==
    LET sg == IF a.sign = 1 THEN <<"-">> ELSE <<>> IN
    IF a.kind = "nan" THEN sg \o <<"N", "a", "N">>
    ELSE LET cs == DigitsOf(a.coeff)
             dotplace == Len(cs) + a.exp IN
         IF a.exp = 0 THEN sg \o cs
         ELSE IF dotplace <= 0 THEN sg \o <<"0", ".">> \o Zeros(-dotplace) \o cs
         ELSE sg \o SubSeq(cs, 1, dotplace) \o <<".">> \o SubSeq(cs, dotplace + 1, Len(cs))

\* The signed coefficient of a number at the exponent e <= a.exp.
Scaled(a, e) == (IF a.sign = 1 THEN -1 ELSE 1) * a.coeff * Pow10(a.exp - e)

\* Decimal a + b: a NaN operand gives a NaN; numbers add exactly at the smaller
\* exponent.
DecAdd(a, b) ==
    IF a.kind = "nan" THEN a
    ELSE IF b.kind = "nan" THEN b
    ELSE LET e == IF a.exp < b.exp THEN a.exp ELSE b.exp
             v == Scaled(a, e) + Scaled(b, e) IN
         IF v < 0 THEN Dec("num", 1, -v, e)
         ELSE IF v > 0 THEN Dec("num", 0, v, e)
         ELSE Dec("num", IF a.sign = 1 /\ b.sign = 1 THEN 1 ELSE 0, 0, e)

(***************************************************************************)
(* Constants of the program and the inputs the model draws from            *)
(***************************************************************************)

\* CSV_FILE and the default name export_filtered offers.  File names and other
\* text whose characters the code never inspects are TLA+ strings.
CSV_FILE == "expenses.csv"

DefaultExport == "export.csv"

\* view_expenses(limit=10), and limit=None (falsy, like 0, in "if limit and ...").
RecentLimit == 10

NoLimit == 0

\* Bounds of the model: the number of records a session adds (add_expense is not
\* offered beyond it), under Spec and under SpecRecords.
MaxAdds == 2

MaxAddsRecords == 3

Blank == <<>>

\* datetime.today().date().strftime(DATE_FORMAT) during the session.
Today == <<"2", "0", "2", "4", "-", "1", "0", "-", "0", "1">>

D_0205 == <<"2", "0", "2", "4", "-", "0", "2", "-", "0", "5">>

D_25 == <<"2", "0", "2", "4", "-", "2", "-", "5">>

D_0230 == <<"2", "0", "2", "4", "-", "0", "2", "-", "3", "0">>

Misc == <<"m", "i", "s", "c">>

Food == <<"f", "o", "o", "d">>

FOOD == <<"F", "O", "O", "D">>

A_abc == <<"a", "b", "c">>

A_9999 == <<"9", ".", "9", "9", "9">>

A_NaN == <<"N", "a", "N">>

\* What the user may type at each prompt, after .strip().  Spec draws dates,
\* categories and amounts of every kind for a few records.
DateInputs == {Blank, D_25, D_0230}

CategoryInputs == {Blank, Food}

AmountInputs == {Blank, A_abc, A_9999, A_NaN}

DescriptionInputs == {""}

IdPrefixInputs == {Blank, <<"a">>, <<"a", "2">>, <<"z">>}

\* SpecRecords draws categories and descriptions for more records.
RecDateInputs == {Blank, D_0230}

RecCategoryInputs == {Blank, Food}

RecAmountInputs == {Blank, A_abc, A_9999}

RecDescriptionInputs == {"", "lunch"}

RecIdPrefixInputs == {Blank, <<"a">>, <<"a", "2">>, <<"b">>, <<"z">>}

ConfirmInputs == {"YES", "no"}

CategoryFilterInputs == {Blank, FOOD}

OutNameInputs == {"", CSV_FILE}

\* str(uuid.uuid4()) at the n-th call of the session, shortened to two characters:
\* a1, a2, b1, b2, c1, ...  The values are pairwise distinct, as random UUIDs are,
\* and consecutive ones share their first character, so that a prefix can match
\* one record, several or none.
uuid4(n) ==
    <<CASE (n - 1) \div 2 = 0 -> "a" [] (n - 1) \div 2 = 1 -> "b" [] (n - 1) \div 2 = 2 -> "c"
        [] OTHER -> "d",
      DigitChar(1 + ((n - 1) % 2))>>

(***************************************************************************)
(* The record store: the file CSV_FILE, a header and one row per record    *)
(***************************************************************************)

Row(id, date, category, amount, description) ==
    [id |-> id, date |-> date, category |-> category, amount |-> amount,
     description |-> description]

\* ensure_csv: creates the file with the header alone when it does not exist.
ensure_csv(f) == IF f.exists THEN f ELSE [exists |-> TRUE, rows |-> <<>>]

\* read_all: the rows of the file after ensure_csv, in file order.
read_all(f) == ensure_csv(f).rows

\* write_all: the file holds the header and exactly the given rows.
write_all(rows) == [exists |-> TRUE, rows |-> rows]

\* What the operation running since the last menu did: the operation, what the
\* user typed at its prompts (args), the last message it printed, the rows it
\* listed or wrote, the name of the file an export wrote and the totals a summary
\* computed.
Out(op, args, outcome, shown, name, totals) ==
    [op |-> op, args |-> args, outcome |-> outcome, shown |-> shown, name |-> name,
     totals |-> totals]

Said(op, args, outcome) == Out(op, args, outcome, <<>>, "", <<>>)

(***************************************************************************)
(* Operations.  Each is one action: the handler main() calls for a menu    *)
(* choice, with everything the user types during it drawn as a parameter.  *)
(***************************************************************************)

\* A slip of append: the new row goes first.
append_front(rows, row) == <<row>> \o rows

\* rows.append(row)
append(rows, row) == Append(rows, row)

\* Step 9: add_expense.
add_expense(date_in, category_in, amount_in, description_in) ==
    /\ pc = "menu"
    /\ pc' = "ran"
    /\ LET args == <<date_in, category_in, amount_in, description_in>> IN
       IF date_in # Blank /\ ~parse_date(date_in).ok
       THEN /\ last' = Said("add", args, "Invalid date format. Use YYYY-MM-DD.")
            /\ csv' = csv
            /\ issued' = issued
       ELSE LET date == IF date_in = Blank THEN Today ELSE date_in
                category == IF category_in = Blank THEN Misc ELSE category_in
                amount == parse_amount(amount_in) IN
            IF amount = None
            THEN /\ last' = Said("add", args, "Invalid amount.")
                 /\ csv' = csv
                 /\ issued' = issued
            ELSE LET row == Row(uuid4(issued + 1), date, category, str(amount), description_in) IN
                 /\ csv' = write_all(append(read_all(csv), row))
                 /\ issued' = issued + 1
                 /\ last' = Said("add", args, "Expense added successfully.")

\* sorted(rows, key=date, reverse=True): x goes before the first row of an already
\* sorted list whose date is smaller; rows with equal dates keep their order.
RECURSIVE InsertDesc(_, _)
InsertDesc(sorted, x) ==
    IF sorted = <<>> THEN <<x>>
    ELSE IF StrLess(Head(sorted).date, x.date) THEN <<x>> \o sorted
    ELSE <<Head(sorted)>> \o InsertDesc(Tail(sorted), x)

RECURSIVE SortedDesc(_)
SortedDesc(rows) ==
    IF rows = <<>> THEN <<>>
    ELSE InsertDesc(SortedDesc(SubSeq(rows, 1, Len(rows) - 1)), rows[Len(rows)])

\* sorted(rows, key=date): x goes before the first row whose date is greater.
RECURSIVE InsertAsc(_, _)
InsertAsc(sorted, x) ==
    IF sorted = <<>> THEN <<x>>
    ELSE IF StrLess(x.date, Head(sorted).date) THEN <<x>> \o sorted
    ELSE <<Head(sorted)>> \o InsertAsc(Tail(sorted), x)

RECURSIVE SortedAsc(_)
SortedAsc(rows) ==
    IF rows = <<>> THEN <<>>
    ELSE InsertAsc(SortedAsc(SubSeq(rows, 1, Len(rows) - 1)), rows[Len(rows)])

\* The rows view_expenses prints: the sorted rows up to the one that makes the
\* count reach the limit.
Printed(rows, limit) ==
    LET s == SortedDesc(rows) IN
    IF limit # 0 /\ Len(s) > limit THEN SubSeq(s, 1, limit) ELSE s

\* Step 10: view_expenses(limit).
view_expenses(limit) ==
    /\ UNCHANGED issued
    /\ pc = "menu"
    /\ LET rows == read_all(csv) IN
       /\ csv' = ensure_csv(csv)
       /\ pc' = "ran"
       /\ IF rows = <<>>
          THEN last' = Said("view", <<limit>>, "No expenses found.")
          ELSE last' = Out("view", <<limit>>, "All expenses:", Printed(rows, limit), "", <<>>)

\* The position of category cat in the totals, or 0.
RECURSIVE IndexOf(_, _, _)
IndexOf(totals, cat, i) ==
    IF i > Len(totals) THEN 0
    ELSE IF totals[i].cat = cat THEN i ELSE IndexOf(totals, cat, i + 1)

\* The dict totals of summary_by_category after the first n rows, in the order
\* the categories were first met.
RECURSIVE Totals(_, _)
Totals(rows, n) ==
    IF n = 0 THEN <<>>
    ELSE LET t == Totals(rows, n - 1)
             cat == rows[n].category
             amt == DecimalOf(rows[n].amount)
             i == IndexOf(t, cat, 1) IN
         IF i = 0 THEN Append(t, [cat |-> cat, total |-> DecAdd(Dec("num", 0, 0, -2), amt)])
         ELSE [t EXCEPT ![i].total = DecAdd(@, amt)]

\* sorted() compares the totals with <, which raises InvalidOperation as soon as a
\* NaN is compared; with two or more entries every entry is compared.
SortRaises(totals) == Len(totals) >= 2 /\ \E i \in 1..Len(totals) : totals[i].total.kind = "nan"

\* Step 11: summary_by_category.  The exception of sorted() is caught nowhere and
\* ends the process.
summary_by_category ==
    /\ UNCHANGED issued
    /\ pc = "menu"
    /\ LET rows == read_all(csv)
           totals == Totals(rows, Len(rows)) IN
       /\ csv' = ensure_csv(csv)
       /\ IF rows = <<>>
          THEN /\ last' = Said("summary", <<>>, "No expenses to summarize.")
               /\ pc' = "ran"
          ELSE IF SortRaises(totals)
          THEN /\ last' = Out("summary", <<>>, "decimal.InvalidOperation", <<>>, "", totals)
               /\ pc' = "crashed"
          ELSE /\ last' = Out("summary", <<>>, "Total by category:", <<>>, "", totals)
               /\ pc' = "ran"

RangeInputs == {Blank, D_0205, D_0230, Today}

\* The rows among the first n whose parsed date lies in [s, e], in file order.
RECURSIVE InRange(_, _, _, _)
InRange(rows, n, s, e) ==
    IF n = 0 THEN <<>>
    ELSE LET rest == InRange(rows, n - 1, s, e)
             d == parse_date(rows[n].date) IN
         IF DateLeq(s, d) /\ DateLeq(d, e) THEN Append(rest, rows[n]) ELSE rest

\* total += Decimal(r["amount"]) over the given rows, from Decimal("0.00").
RECURSIVE SumAmounts(_, _)
SumAmounts(rows, n) ==
    IF n = 0 THEN Dec("num", 0, 0, -2)
    ELSE DecAdd(SumAmounts(rows, n - 1), DecimalOf(rows[n].amount))

\* Step 12: summary_by_date_range.
summary_by_date_range(start, end) ==
    /\ UNCHANGED issued
    /\ pc = "menu"
    /\ pc' = "ran"
    /\ LET rows == read_all(csv)
           s == parse_date(start)
           e == parse_date(end) IN
       /\ csv' = ensure_csv(csv)
       /\ IF rows = <<>>
          THEN last' = Said("range", <<>>, "No expenses to summarize.")
          ELSE IF ~s.ok \/ ~e.ok \/ ~DateLeq(s, e)
          THEN last' = Said("range", <<start, end>>, "Invalid date range.")
          ELSE LET filtered == InRange(rows, Len(rows), s, e) IN
               IF filtered = <<>>
               THEN last' = Said("range", <<start, end>>, "No expenses in that range.")
               ELSE last' = Out("range", <<start, end>>, "Total", SortedAsc(filtered), "",
                                <<[cat |-> Blank, total |-> SumAmounts(filtered, Len(filtered))]>>)

\* A slip of the search loop: it goes on to the last matching row.
RECURSIVE LastMatch(_, _, _)
LastMatch(rows, id_prefix, i) ==
    IF i > Len(rows) THEN 0
    ELSE LET later == LastMatch(rows, id_prefix, i + 1) IN
         IF later # 0 THEN later
         ELSE IF StartsWith(rows[i].id, id_prefix) THEN i ELSE 0

\* The index of the first row at or after i whose id starts with the prefix, or 0.
RECURSIVE FirstMatch(_, _, _)
FirstMatch(rows, id_prefix, i) ==
    IF i > Len(rows) THEN 0
    ELSE IF StartsWith(rows[i].id, id_prefix) THEN i
    ELSE FirstMatch(rows, id_prefix, i + 1)

\* rows[idx].update({...}): the four fields of the row at idx are replaced.
update(rows, idx, new_date, new_cat, new_amt, new_desc) ==
    [rows EXCEPT ![idx] = Row(rows[idx].id, new_date, new_cat, new_amt, new_desc)]

\* A slip edit_expense could make: the new date and category are saved before
\* the amount is validated.
edit_expense_saves_early(id_prefix, date_in, category_in, amount_in, description_in) ==
    /\ UNCHANGED issued
    /\ pc = "menu"
    /\ pc' = "ran"
    /\ LET rows == read_all(csv)
           idx == FirstMatch(rows, id_prefix, 1) IN
       IF idx = 0
       THEN /\ last' = Said("edit", <<id_prefix>>, "No matching expense found.")
            /\ csv' = ensure_csv(csv)
       ELSE LET r == rows[idx]
                args == <<id_prefix, date_in, category_in, amount_in, description_in>>
                new_date == IF date_in = Blank THEN r.date ELSE date_in
                new_cat == IF category_in = Blank THEN r.category ELSE category_in
                new_amt == IF amount_in = Blank THEN r.amount ELSE amount_in
                new_amt_parsed == parse_amount(new_amt)
                new_desc == IF description_in = "" THEN r.description ELSE description_in IN
            IF ~parse_date(new_date).ok
            THEN /\ last' = Out("edit", args, "Invalid date.", <<r>>, "", <<>>)
                 /\ csv' = ensure_csv(csv)
            ELSE IF new_amt_parsed = None
            THEN /\ last' = Out("edit", args, "Invalid amount.", <<r>>, "", <<>>)
                 /\ csv' = write_all(update(rows, idx, new_date, new_cat, r.amount, r.description))
            ELSE /\ csv' = write_all(update(rows, idx, new_date, new_cat, str(new_amt_parsed), new_desc))
                 /\ last' = Out("edit", args, "Updated successfully.", <<r>>, "", <<>>)

\* Step 13: edit_expense.
edit_expense(id_prefix, date_in, category_in, amount_in, description_in) ==
    /\ UNCHANGED issued
    /\ pc = "menu"
    /\ pc' = "ran"
    /\ LET rows == read_all(csv)
           idx == FirstMatch(rows, id_prefix, 1) IN
       IF idx = 0
       THEN /\ last' = Said("edit", <<id_prefix>>, "No matching expense found.")
            /\ csv' = ensure_csv(csv)
       ELSE LET r == rows[idx]
                args == <<id_prefix, date_in, category_in, amount_in, description_in>>
                new_date == IF date_in = Blank THEN r.date ELSE date_in
                new_cat == IF category_in = Blank THEN r.category ELSE category_in
                new_amt == IF amount_in = Blank THEN r.amount ELSE amount_in
                new_amt_parsed == parse_amount(new_amt)
                new_desc == IF description_in = "" THEN r.description ELSE description_in IN
            IF ~parse_date(new_date).ok
            THEN /\ last' = Out("edit", args, "Invalid date.", <<r>>, "", <<>>)
                 /\ csv' = ensure_csv(csv)
            ELSE IF new_amt_parsed = None
            THEN /\ last' = Out("edit", args, "Invalid amount.", <<r>>, "", <<>>)
                 /\ csv' = ensure_csv(csv)
            ELSE /\ csv' = write_all(update(rows, idx, new_date, new_cat, str(new_amt_parsed), new_desc))
                 /\ last' = Out("edit", args, "Updated successfully.", <<r>>, "", <<>>)

\* [r for r in rows if keep(r)] for the two filters of delete_expense.
Matching(rows, id_prefix) == SelectSeq(rows, LAMBDA r : StartsWith(r.id, id_prefix))

\* A slip of the second filter: only the first matching row is dropped.
NotFirstMatching(rows, id_prefix) ==
    LET k == FirstMatch(rows, id_prefix, 1) IN
    IF k = 0 THEN rows ELSE SubSeq(rows, 1, k - 1) \o SubSeq(rows, k + 1, Len(rows))

NotMatching(rows, id_prefix) == SelectSeq(rows, LAMBDA r : ~StartsWith(r.id, id_prefix))

\* Step 14: delete_expense.
delete_expense(id_prefix, confirm) ==
    /\ UNCHANGED issued
    /\ pc = "menu"
    /\ pc' = "ran"
    /\ LET rows == read_all(csv)
           matches == Matching(rows, id_prefix) IN
       IF matches = <<>>
       THEN /\ last' = Said("delete", <<id_prefix>>, "No matching expense found.")
            /\ csv' = ensure_csv(csv)
       ELSE IF confirm = "YES"
       THEN /\ csv' = write_all(NotMatching(rows, id_prefix))
            /\ last' = Out("delete", <<id_prefix, confirm>>, "Deleted successfully.", matches, "", <<>>)
       ELSE /\ csv' = ensure_csv(csv)
            /\ last' = Out("delete", <<id_prefix, confirm>>, "Cancelled.", matches, "", <<>>)

\* The three filters of export_filtered, each applied when its input is not blank.
ByCategory(rows, cat) ==
    IF cat = Blank THEN rows
    ELSE SelectSeq(rows, LAMBDA r : Lower(r.category) = Lower(cat))

FromDate(rows, start) ==
    IF start = Blank THEN rows
    ELSE SelectSeq(rows, LAMBDA r : DateLeq(parse_date(start), parse_date(r.date)))

ToDate(rows, end) ==
    IF end = Blank THEN rows
    ELSE SelectSeq(rows, LAMBDA r : DateLeq(parse_date(r.date), parse_date(end)))

\* The file the export opens for writing.
OutName(out_name_in) == IF out_name_in = "" THEN DefaultExport ELSE out_name_in

\* The content of CSV_FILE after the rows are written to the file named name:
\* open(name, "w") truncates that file, whichever file it is.
AfterExport(f, name, rows) == IF name = CSV_FILE THEN write_all(rows) ELSE f

\* Step 15: export_filtered.
export_filtered(cat, start, end, out_name_in) ==
    /\ UNCHANGED issued
    /\ pc = "menu"
    /\ pc' = "ran"
    /\ LET rows == read_all(csv)
           filtered == ToDate(FromDate(ByCategory(rows, cat), start), end) IN
       IF rows = <<>>
       THEN /\ last' = Said("export", <<>>, "No data to export.")
            /\ csv' = ensure_csv(csv)
       ELSE IF start # Blank /\ ~parse_date(start).ok
       THEN /\ last' = Said("export", <<cat, start, end>>, "Invalid start date.")
            /\ csv' = ensure_csv(csv)
       ELSE IF end # Blank /\ ~parse_date(end).ok
       THEN /\ last' = Said("export", <<cat, start, end>>, "Invalid end date.")
            /\ csv' = ensure_csv(csv)
       ELSE IF filtered = <<>>
       THEN /\ last' = Said("export", <<cat, start, end>>, "No matching records.")
            /\ csv' = ensure_csv(csv)
       ELSE /\ csv' = AfterExport(ensure_csv(csv), OutName(out_name_in), filtered)
            /\ last' = Out("export", <<cat, start, end, out_name_in>>, "Exported", filtered,
                           OutName(out_name_in), <<>>)

\* Choice 9 of main: the loop ends.
quit ==
    /\ UNCHANGED issued
    /\ pc = "menu"
    /\ pc' = "exited"
    /\ last' = Said("quit", <<>>, "Goodbye.")
    /\ UNCHANGED csv

\* Any other choice: main prints a message and prompts again.
invalid_choice ==
    /\ UNCHANGED issued
    /\ pc = "menu"
    /\ pc' = "ran"
    /\ last' = Said("menu", <<>>, "Invalid choice. Please select between 1-9.")
    /\ UNCHANGED csv

\* The top of main's loop after a handler returned: the menu is printed and the
\* next choice awaited.  What the handler printed is behind the menu now.
prompt ==
    /\ UNCHANGED issued
    /\ pc = "ran"
    /\ pc' = "menu"
    /\ last' = Said("none", <<>>, "")
    /\ UNCHANGED csv

\* main() before its loop: ensure_csv().
main_start ==
    /\ UNCHANGED issued
    /\ pc = "start"
    /\ pc' = "menu"
    /\ csv' = ensure_csv(csv)
    /\ UNCHANGED last

\* Before the program runs the file is absent or holds the header alone.
Init ==
    /\ csv \in {[exists |-> FALSE, rows |-> <<>>], [exists |-> TRUE, rows |-> <<>>]}
    /\ pc = "start"
    /\ last = Said("none", <<>>, "")
    /\ issued = 0

Add ==
    /\ issued < MaxAdds
    /\ \E date_in \in DateInputs, category_in \in CategoryInputs, amount_in \in AmountInputs,
          description_in \in DescriptionInputs :
          add_expense(date_in, category_in, amount_in, description_in)

ViewRecent == view_expenses(RecentLimit)

ViewAll == view_expenses(NoLimit)

SummaryByCategory == summary_by_category

SummaryByDateRange == \E start \in RangeInputs, end \in RangeInputs : summary_by_date_range(start, end)

Edit ==
    \E id_prefix \in IdPrefixInputs, date_in \in DateInputs, category_in \in CategoryInputs,
       amount_in \in AmountInputs, description_in \in DescriptionInputs :
       edit_expense(id_prefix, date_in, category_in, amount_in, description_in)

Delete == \E id_prefix \in IdPrefixInputs, confirm \in ConfirmInputs : delete_expense(id_prefix, confirm)

Export ==
    \E cat \in CategoryFilterInputs, start \in RangeInputs, end \in RangeInputs,
       out_name_in \in OutNameInputs : export_filtered(cat, start, end, out_name_in)

\* Step 17: main.
Next ==
    \/ main_start
    \/ Add
    \/ ViewRecent
    \/ ViewAll
    \/ SummaryByCategory
    \/ SummaryByDateRange
    \/ Edit
    \/ Delete
    \/ Export
    \/ quit
    \/ invalid_choice
    \/ prompt

Spec == Init /\ [][Next]_vars

AddRec ==
    /\ issued < MaxAddsRecords
    /\ \E date_in \in RecDateInputs, category_in \in RecCategoryInputs,
          amount_in \in RecAmountInputs, description_in \in RecDescriptionInputs :
          add_expense(date_in, category_in, amount_in, description_in)

EditRec ==
    \E id_prefix \in RecIdPrefixInputs, date_in \in RecDateInputs,
       category_in \in RecCategoryInputs, amount_in \in RecAmountInputs,
       description_in \in RecDescriptionInputs :
       edit_expense(id_prefix, date_in, category_in, amount_in, description_in)

DeleteRec ==
    \E id_prefix \in RecIdPrefixInputs, confirm \in ConfirmInputs : delete_expense(id_prefix, confirm)

\* main with the inputs of SpecRecords.
NextRecords ==
    \/ main_start
    \/ AddRec
    \/ ViewRecent
    \/ ViewAll
    \/ SummaryByCategory
    \/ SummaryByDateRange
    \/ EditRec
    \/ DeleteRec
    \/ Export
    \/ quit
    \/ invalid_choice
    \/ prompt

SpecRecords == Init /\ [][NextRecords]_vars

(***************************************************************************)
(* Properties                                                              *)
(***************************************************************************)

\* An operation runs in the step from the menu; last' then tells which.
Runs(op) == pc = "menu" /\ last'.op = op

\* The inputs <<date, category, amount, description>> of an add that the
\* validators reject: a date that is not blank and does not parse, or an amount
\* that does not parse.
AddRejected(a) == (a[1] # Blank /\ ~parse_date(a[1]).ok) \/ parse_amount(a[3]) = None

\* The index of the first row whose id starts with the prefix p, or 0.
FirstIndex(rows, p) ==
    LET M == {i \in 1..Len(rows) : StartsWith(rows[i].id, p)} IN
    IF M = {} THEN 0 ELSE CHOOSE i \in M : \A j \in M : i <= j

\* The inputs <<prefix, date, category, amount, description>> of an edit of a
\* matching record whose supplied (not blank) date or amount does not parse.
EditRejected(rows, a) ==
    /\ Len(a) = 5
    /\ FirstIndex(rows, a[1]) # 0
    /\ \/ a[2] # Blank /\ ~parse_date(a[2]).ok
       \/ a[4] # Blank /\ parse_amount(a[4]) = None

\* C1: a validation failure never changes the store: an add whose date is not
\* blank and does not parse or whose amount does not parse, and an edit of a
\* matching record whose supplied date or amount does not parse, leave the record
\* sequence of the store as it was.
C1_ValidationFailureKeepsStore ==
    [][(\/ Runs("add") /\ AddRejected(last'.args)
        \/ Runs("edit") /\ EditRejected(csv.rows, last'.args))
       => csv'.rows = csv.rows]_vars

\* C1 happens: an edit of a stored record was given a new date that parses and
\* then an amount that does not.
C1_Witness ==
    /\ pc = "ran" /\ last.op = "edit" /\ last.outcome = "Invalid amount."
    /\ EditRejected(csv.rows, last.args)
    /\ last.args[2] = D_25 /\ last.shown[1].date # D_25

\* s is a zero-padded YYYY-MM-DD text that names a date of the calendar.
Canonical(s) ==
    /\ Len(s) = 10
    /\ \A i \in {1, 2, 3, 4, 6, 7, 9, 10} : s[i] \in Digits
    /\ s[5] = "-" /\ s[8] = "-"
    /\ LET y == IntOf(SubSeq(s, 1, 4))
           m == IntOf(SubSeq(s, 6, 7))
           d == IntOf(SubSeq(s, 9, 10)) IN
       y >= 1 /\ m \in 1..12 /\ d \in 1..DaysInMonth(y, m)

\* C2: the date of every record of the store is in the canonical zero-padded
\* YYYY-MM-DD form and names a real calendar date (an input such as 2024-2-5 is
\* never stored).
C2_StoredDatesCanonical == \A i \in 1..Len(csv.rows) : Canonical(csv.rows[i].date)

\* s is a finite decimal number written with exactly two fractional digits.
TwoFractionalDigits(s) ==
    LET b == IF At(s, 1) = "-" THEN Tail(s) ELSE s IN
    /\ Len(b) >= 4
    /\ b[Len(b) - 2] = "."
    /\ \A i \in 1..Len(b) : i # Len(b) - 2 => b[i] \in Digits

\* C3: the amount of every record of the store is a finite decimal number written
\* with exactly 2 fractional digits.
C3_StoredAmountsTwoDecimals ==
    \A i \in 1..Len(csv.rows) : TwoFractionalDigits(csv.rows[i].amount)

DistinctIds(rows) == \A i, j \in 1..Len(rows) : i # j => rows[i].id # rows[j].id

\* C4: a successful add yields the previous record sequence, unchanged and in the
\* same order, followed by exactly one new record whose id no record already
\* present has; and the ids of the store stay pairwise distinct through every
\* add, edit and delete.
C4_AddAppendsOneFreshRecord ==
    [][/\ (Runs("add") /\ ~AddRejected(last'.args))
           => /\ Len(csv'.rows) = Len(csv.rows) + 1
              /\ SubSeq(csv'.rows, 1, Len(csv.rows)) = csv.rows
              /\ \A i \in 1..Len(csv.rows) : csv.rows[i].id # csv'.rows[Len(csv'.rows)].id
       /\ DistinctIds(csv'.rows)]_vars

\* C4 happens: an add succeeded on a store that held a record, after the first
\* record of the session had been deleted.
C4_Witness ==
    /\ pc = "ran" /\ last.op = "add" /\ ~AddRejected(last.args)
    /\ Len(csv.rows) = 2 /\ csv.rows[1].id # uuid4(1)

\* C5: an edit changes at most one record, the first in file order whose id
\* starts with the prefix: its id, every other record (later matches included),
\* the count and the order are unchanged, a field left blank keeps its value, and
\* with no match the store is unchanged.
C5_EditChangesOnlyFirstMatch ==
    [][Runs("edit") =>
         LET old == csv.rows
             new == csv'.rows
             a == last'.args
             k == FirstIndex(old, a[1]) IN
         IF k = 0 THEN csv' = csv
         ELSE /\ Len(new) = Len(old)
              /\ \A i \in 1..Len(old) : i # k => new[i] = old[i]
              /\ new[k].id = old[k].id
              /\ Len(a) = 5
              /\ a[2] = Blank => new[k].date = old[k].date
              /\ a[3] = Blank => new[k].category = old[k].category
              /\ a[4] = Blank => new[k].amount = old[k].amount
              /\ a[5] = "" => new[k].description = old[k].description]_vars

\* C5 happens: an edit whose prefix two records match changed the date and the
\* amount of the first and left its category blank; the second match differs.
C5_Witness ==
    /\ pc = "ran" /\ last.op = "edit" /\ last.outcome = "Updated successfully."
    /\ Len(csv.rows) = 2
    /\ \A i \in 1..2 : StartsWith(csv.rows[i].id, last.args[1])
    /\ last.args[2] # Blank /\ last.args[3] = Blank /\ last.args[4] # Blank
    /\ last.shown[1] # csv.rows[1]
    /\ csv.rows[1].category = Food
    /\ csv.rows[2].date # csv.rows[1].date

\* The j-th smallest element of a set of numbers.
Nth(S, j) == CHOOSE i \in S : Cardinality({x \in S : x <= i}) = j

\* C6: a confirmed delete leaves the previous record sequence without the records
\* whose id starts with the prefix, all of them, the others in their previous
\* relative order; unconfirmed, or with no match, the store is unchanged.
C6_DeleteRemovesAllMatches ==
    [][Runs("delete") =>
         LET old == csv.rows
             new == csv'.rows
             a == last'.args
             Kept == {i \in 1..Len(old) : ~StartsWith(old[i].id, a[1])} IN
         IF Len(a) = 2 /\ a[2] = "YES"
         THEN /\ Len(new) = Cardinality(Kept)
              /\ \A j \in 1..Len(new) : new[j] = old[Nth(Kept, j)]
         ELSE new = old]_vars

\* C6 happens: a confirmed delete removed two records at once and left another.
C6_Witness ==
    /\ pc = "ran" /\ last.op = "delete" /\ last.outcome = "Deleted successfully."
    /\ Len(last.shown) = 2
    /\ Len(csv.rows) = 1

\* C7: an export leaves the primary store as it was, for every choice of filters
\* and of output name.
C7_ExportKeepsStore == [][Runs("export") => csv'.rows = csv.rows]_vars

\* Decimal equality a == b: a NaN equals nothing, not even itself; numbers compare by value.
DecEq(a, b) ==
    /\ a.kind = "num" /\ b.kind = "num"
    /\ LET e == IF a.exp < b.exp THEN a.exp ELSE b.exp IN Scaled(a, e) = Scaled(b, e)

\* sum(totals.values()): the totals added up from the integer 0.
RECURSIVE SumTotals(_, _)
SumTotals(totals, n) ==
    IF n = 0 THEN Dec("num", 0, 0, 0)
    ELSE DecAdd(SumTotals(totals, n - 1), totals[n].total)

\* C8: the per-category totals of summary_by_category add up to exactly the sum
\* of the amounts of all records, and the total of each category is the sum of
\* the amounts of the records of that category.
C8_CategoryTotalsSumToAll ==
    (last.op = "summary" /\ last.totals # <<>>)
      => /\ DecEq(SumTotals(last.totals, Len(last.totals)), SumAmounts(csv.rows, Len(csv.rows)))
         /\ \A n \in 1..Len(last.totals) :
              LET own == SelectSeq(csv.rows, LAMBDA r : r.category = last.totals[n].cat) IN
              DecEq(last.totals[n].total, SumAmounts(own, Len(own)))

\* The position in the file of the record with the given id.
PositionOf(rows, id) == CHOOSE i \in 1..Len(rows) : rows[i].id = id

\* C9: the listing shows the records in chronologically non-increasing order of
\* date, records of equal date in their file order, and with a limit n exactly
\* the first min(n, count) of them.
C9_ListingChronological ==
    (last.op = "view" /\ last.shown # <<>>)
      => LET s == last.shown
             limit == last.args[1]
             count == Len(csv.rows) IN
         /\ \A i, j \in 1..Len(s) :
              i < j => DateLeq(parse_date(s[j].date), parse_date(s[i].date))
         /\ \A i, j \in 1..Len(s) :
              (i < j /\ s[i].date = s[j].date)
                => PositionOf(csv.rows, s[i].id) < PositionOf(csv.rows, s[j].id)
         /\ Len(s) = IF limit # 0 /\ limit < count THEN limit ELSE count
         /\ \A i \in 1..Len(s) : \E k \in 1..count : csv.rows[k] = s[i]

\* C10: no operation ends the process: after every menu choice other than Quit
\* control is back at the menu.
C10_LoopNeverCrashes == pc # "crashed"

====
